---- MODULE Spec2Model ----
(***************************************************************************)
(* GeoSpeak corpus manager (src/corpus_manager.py): the corpus store, the  *)
(* index builder, the registry of loaded indexes and the retrieval engine. *)
(*                                                                         *)
(* Storage is three families of files under corpus_dir, each a Python      *)
(* dict from corpus name to file content: <name>.json, <name>_index.faiss  *)
(* and <name>_metadata.pkl.  The registry is self.indexes / self.metadata. *)
(* Embedding vectors are two-dimensional integer vectors; a unit vector    *)
(* has length UnitNorm, so an inner product of two unit vectors is the     *)
(* cosine scaled by UnitNorm * UnitNorm.  Positions are 0-based as in      *)
(* Python; a sequence s holds position i at s[i + 1].                      *)
(***************************************************************************)
EXTENDS Integers, Sequences, FiniteSets, TLC

VARIABLES
  corpusFiles,   \* <name>.json files: name -> the chunks of the JSON text
  indexFiles,    \* <name>_index.faiss files: name -> sequence of vectors
  metaFiles,     \* <name>_metadata.pkl files: name -> sequence of records
  indexes,       \* self.indexes: name -> sequence of vectors
  indexKeys,     \* insertion order of the keys of self.indexes
  metadata,      \* self.metadata: name -> sequence of records
  annTie,        \* how the index service orders equal scores (fixed per run)
  last,          \* the last call: its arguments and what it returned
  builder,       \* a thread inside build_vector_index: its position and locals
  searcher,      \* a thread inside search_similar_texts: its position and locals
  registered,    \* the (index, metadata) pairs the registry has held as a pair
  saver,         \* a thread inside save_corpus: its position and locals
  loader         \* a thread that called load_corpus: what it was given

vars == <<corpusFiles, indexFiles, metaFiles, indexes, indexKeys, metadata, annTie, last,
          builder, searcher, registered, saver, loader>>

storeVars == <<saver, loader>>

threadVars == <<builder, searcher, registered, saver, loader>>

(***************************************************************************)
(* Bounds and input sets                                                   *)
(***************************************************************************)
MaxK == 2

Names == {"legal_formal", "medical_terminology"}

None == "None"

Langs == {"en", "es", "fr"}

eCourt == [en |-> "Court hearing", es |-> "Audiencia judicial"]

eBlood == [en |-> "Blood pressure", es |-> "Presion arterial"]

eHearing == [en |-> "Court hearing"]

eEsOnly == [es |-> "Frecuencia cardiaca"]

DataPool ==
  { <<>>,
    <<eCourt, eHearing>>,
    <<eEsOnly, eBlood>> }

Queries == {"Court hearing", ""}

Ks == 1..MaxK

MaxExamples == 2

Targets == {"es", "fr"}

(***************************************************************************)
(* Python dict helpers                                                     *)
(***************************************************************************)
EmptyDict == [x \in {} |-> 0]

DictSet(d, key, val) == [x \in (DOMAIN d) \cup {key} |-> IF x = key THEN val ELSE d[x]]

KeysAfterSet(keys, key) ==
  IF \E i \in 1..Len(keys) : keys[i] = key THEN keys ELSE Append(keys, key)

(***************************************************************************)
(* Embedding provider and L2 normalisation                                 *)
(***************************************************************************)
UnitNorm == 5

Encode(text) ==
  CASE text = "Court hearing"       -> <<6, 8>>
    [] text = "Legal agreement"     -> <<4, 3>>
    [] text = "Blood pressure"      -> <<-8, 6>>
    [] text = "Audiencia judicial"  -> <<3, 4>>
    [] text = "Acuerdo legal"       -> <<8, 6>>
    [] text = "Presion arterial"    -> <<-4, 3>>
    [] text = "Frecuencia cardiaca" -> <<0, -10>>
    [] OTHER                        -> <<5, 0>>

Dot(v, w) == v[1] * w[1] + v[2] * w[2]

Norm(v) == CHOOSE n \in 0..Dot(v, v) : n * n = Dot(v, v)

NormalizeL2(v) ==
  IF Norm(v) = 0 THEN v
  ELSE <<(v[1] * UnitNorm) \div Norm(v), (v[2] * UnitNorm) \div Norm(v)>>

(***************************************************************************)
(* Corpus store                                                            *)
(***************************************************************************)
\* datetime.now().isoformat(): the code never reads it back, one value stands for it
Now == "2024-01-01T00:00:00"

Member(key, value) == [key |-> key, value |-> value]

\* the entries written under a key load_corpus does not read
CorpusRecord_dataUnderEntries(corpus_name, data) ==
  << Member("name", corpus_name),
     Member("entries", data),
     Member("created_at", Now),
     Member("count", Len(data)) >>

\* the dict save_corpus hands to json.dump, its members in insertion order
CorpusRecord(corpus_name, data) ==
  << Member("name", corpus_name),
     Member("data", data),
     Member("created_at", Now),
     Member("count", Len(data)) >>

\* json.dump: the chunks of the document in the order they are written to the file
JsonDump(members) == <<Member("{", "")>> \o members \o <<Member("}", "")>>

\* json.load accepts the text: it is a whole document, not a prefix of one
JsonComplete(text) ==
  /\ Len(text) >= 2
  /\ text[1].key = "{"
  /\ text[Len(text)].key = "}"

\* json.load(f).get(key, default)
JsonGet(text, key, default) ==
  IF \E i \in 2..(Len(text) - 1) : text[i].key = key
  THEN text[CHOOSE i \in 2..(Len(text) - 1) : text[i].key = key].value
  ELSE default

\* the chunks of a corpus document: the braces and the four members
MaxChunks == Len(JsonDump(CorpusRecord(None, <<>>)))

\* load_corpus finds a file that json.load rejects
LoadCorpusRaises(corpus_name) ==
  corpus_name \in DOMAIN corpusFiles /\ ~JsonComplete(corpusFiles[corpus_name])

\* a name without a file answered from a file that exists
LoadCorpus_anyFile(corpus_name) ==
  IF corpus_name \in DOMAIN corpusFiles
  THEN JsonGet(corpusFiles[corpus_name], "data", <<>>)
  ELSE IF corpusFiles = EmptyDict THEN <<>>
  ELSE JsonGet(corpusFiles[CHOOSE c \in DOMAIN corpusFiles : TRUE], "data", <<>>)

LoadCorpus(corpus_name) ==
  IF corpus_name \notin DOMAIN corpusFiles THEN <<>>
  ELSE JsonGet(corpusFiles[corpus_name], "data", <<>>)

(***************************************************************************)
(* Index builder                                                           *)
(***************************************************************************)
RECURSIVE FilterPositions(_, _, _)
\* the 0-based positions idx of data, from position `from` on, with source_lang in data[idx]
FilterPositions(data, source_lang, from) ==
  IF from >= Len(data) THEN <<>>
  ELSE (IF source_lang \in DOMAIN data[from + 1] THEN <<from>> ELSE <<>>)
       \o FilterPositions(data, source_lang, from + 1)

BuildTexts(data, source_lang) ==
  LET pos == FilterPositions(data, source_lang, 0)
  IN  [i \in 1..Len(pos) |-> data[pos[i] + 1][source_lang]]

\* a record for every entry, with or without source_lang
BuildMetadata_unfiltered(corpus_name, data, source_lang) ==
  [i \in 1..Len(data) |-> [corpus |-> corpus_name, index |-> i - 1, translations |-> data[i]]]

\* 'index' counted in the filtered list instead of the corpus
BuildMetadata_filteredPosition(corpus_name, data, source_lang) ==
  LET pos == FilterPositions(data, source_lang, 0)
  IN  [i \in 1..Len(pos) |->
         [corpus |-> corpus_name, index |-> i - 1, translations |-> data[pos[i] + 1]]]

BuildMetadata(corpus_name, data, source_lang) ==
  LET pos == FilterPositions(data, source_lang, 0)
  IN  [i \in 1..Len(pos) |->
         [corpus |-> corpus_name, index |-> pos[i], translations |-> data[pos[i] + 1]]]

\* IndexFlatIP over the normalised embeddings, added in order
BuildIndex(texts) == [i \in 1..Len(texts) |-> NormalizeL2(Encode(texts[i]))]

(***************************************************************************)
(* Vector index service: IndexFlatIP.search                                *)
(***************************************************************************)
\* the score of a slot that holds no vector (position -1): below every inner product
PadScore == 0 - (UnitNorm * UnitNorm + 1)

\* the ranking turned round: the lowest inner product first
Before_lowestFirst(index, qv, tie, i, j) ==
  \/ Dot(qv, index[i + 1]) < Dot(qv, index[j + 1])
  \/ /\ Dot(qv, index[i + 1]) = Dot(qv, index[j + 1])
     /\ IF tie = "low" THEN i <= j ELSE i >= j

Before(index, qv, tie, i, j) ==
  \/ Dot(qv, index[i + 1]) > Dot(qv, index[j + 1])
  \/ /\ Dot(qv, index[i + 1]) = Dot(qv, index[j + 1])
     /\ IF tie = "low" THEN i <= j ELSE i >= j

RECURSIVE Ranked(_, _, _, _)
\* the positions of S by score, best first
Ranked(index, qv, tie, S) ==
  IF S = {} THEN <<>>
  ELSE LET b == CHOOSE i \in S : \A j \in S : Before(index, qv, tie, i, j)
       IN  <<b>> \o Ranked(index, qv, tie, S \ {b})

\* the first k positions as they stand in the index, unranked
FaissSearch_firstK(index, qv, k, tie) ==
  [i \in 1..k |->
     IF i <= Len(index) THEN [score |-> Dot(qv, index[i]), idx |-> i - 1]
     ELSE [score |-> PadScore, idx |-> 0 - 1]]

\* k (score, position) pairs, best first; slots past the last vector hold (PadScore, -1)
FaissSearch(index, qv, k, tie) ==
  LET r == Ranked(index, qv, tie, 0..(Len(index) - 1))
  IN  [i \in 1..k |->
         IF i <= Len(r) THEN [score |-> Dot(qv, index[r[i] + 1]), idx |-> r[i]]
         ELSE [score |-> PadScore, idx |-> 0 - 1]]

(***************************************************************************)
(* Retrieval engine                                                        *)
(***************************************************************************)
\* Python list indexing: a negative position counts from the end
PyItem(list, idx) == IF idx >= 0 THEN list[idx + 1] ELSE list[Len(list) + idx + 1]

HitAccepted(hit, md) == hit.idx < Len(md)

MakeResult(corpus, hit, md) ==
  [corpus |-> PyItem(md, hit.idx).corpus,
   index |-> PyItem(md, hit.idx).index,
   translations |-> PyItem(md, hit.idx).translations,
   similarity_score |-> hit.score,
   corpus_name |-> corpus]

RECURSIVE Collect(_, _, _, _)
\* the results of one corpus: the accepted hits, in the order the index returned them
Collect(corpus, hits, md, from) ==
  IF from > Len(hits) THEN <<>>
  ELSE (IF HitAccepted(hits[from], md) THEN <<MakeResult(corpus, hits[from], md)>> ELSE <<>>)
       \o Collect(corpus, hits, md, from + 1)

RECURSIVE InsertSorted_beforeEquals(_, _)
\* x placed before the elements whose score equals its own
InsertSorted_beforeEquals(sorted, x) ==
  IF sorted = <<>> THEN <<x>>
  ELSE IF Head(sorted).similarity_score > x.similarity_score
       THEN <<Head(sorted)>> \o InsertSorted_beforeEquals(Tail(sorted), x)
       ELSE <<x>> \o sorted

RECURSIVE InsertSorted(_, _)
\* x placed after every element whose score is >= its own
InsertSorted(sorted, x) ==
  IF sorted = <<>> THEN <<x>>
  ELSE IF Head(sorted).similarity_score >= x.similarity_score
       THEN <<Head(sorted)>> \o InsertSorted(Tail(sorted), x)
       ELSE <<x>> \o sorted

RECURSIVE SortByScore_ascending(_)
\* the sort without reverse = True: lowest score first
SortByScore_ascending(results) ==
  IF results = <<>> THEN <<>>
  ELSE LET m == CHOOSE i \in 1..Len(results) :
                  \A j \in 1..Len(results) :
                    \/ results[i].similarity_score < results[j].similarity_score
                    \/ (results[i].similarity_score = results[j].similarity_score /\ i <= j)
       IN  <<results[m]>>
           \o SortByScore_ascending([n \in 1..(Len(results) - 1) |->
                                      IF n < m THEN results[n] ELSE results[n + 1]])

\* the merged list left in the order the corpora were searched
SortByScore_unsorted(results) == results

RECURSIVE SortByScore(_)
\* list.sort(key = similarity_score, reverse = True): stable, descending
SortByScore(results) ==
  IF results = <<>> THEN <<>>
  ELSE InsertSorted(SortByScore(SubSeq(results, 1, Len(results) - 1)), results[Len(results)])

Take(results, k) == SubSeq(results, 1, IF k < Len(results) THEN k ELSE Len(results))

\* the truth value Python gives a corpus_name argument: None and the empty string
\* are false
Truthy(corpus_name) == corpus_name # None /\ corpus_name # ""

\* line 621
CorporaToSearch(corpus_name, keys) == IF Truthy(corpus_name) THEN <<corpus_name>> ELSE keys

RECURSIVE Gather(_, _, _, _, _, _, _)
\* the loop over corpora_to_search, from position `from` on
Gather(idx, md, corpora, qv, k, tie, from) ==
  IF from > Len(corpora) THEN <<>>
  ELSE (IF corpora[from] \notin DOMAIN idx THEN <<>>
        ELSE Collect(corpora[from], FaissSearch(idx[corpora[from]], qv, k, tie),
                     md[corpora[from]], 1))
       \o Gather(idx, md, corpora, qv, k, tie, from + 1)

QueryVector(query) == NormalizeL2(Encode(query))

\* search_similar_texts once the named corpus is in the registry (or corpus_name is None)
SearchLoaded(idx, md, keys, query, corpus_name, k, tie) ==
  Take(SortByScore(Gather(idx, md, CorporaToSearch(corpus_name, keys),
                          QueryVector(query), k, tie, 1)), k)

CanLoad(corpus_name) ==
  corpus_name \in DOMAIN indexFiles /\ corpus_name \in DOMAIN metaFiles

\* self.indexes after load_vector_index(corpus_name)
LoadedIndexes(idx, corpus_name) ==
  IF CanLoad(corpus_name) THEN DictSet(idx, corpus_name, indexFiles[corpus_name]) ELSE idx

LoadedKeys(keys, corpus_name) ==
  IF CanLoad(corpus_name) THEN KeysAfterSet(keys, corpus_name) ELSE keys

\* load_vector_index without the assignment of lines 603-604
LoadedMetadata_notRegistered(md, corpus_name) == md

\* self.metadata after load_vector_index(corpus_name)
LoadedMetadata(md, corpus_name) ==
  IF CanLoad(corpus_name) THEN DictSet(md, corpus_name, metaFiles[corpus_name]) ELSE md

\* the test of line 610 without its "corpus_name and"
NeedsLoad_noneToo(corpus_name, idx) == corpus_name \notin DOMAIN idx

\* line 610: the named corpus is not in the registry, so load_vector_index is tried
NeedsLoad(corpus_name, idx) == Truthy(corpus_name) /\ corpus_name \notin DOMAIN idx

\* the registry as search_similar_texts leaves it
SearchIndexes(corpus_name) ==
  IF NeedsLoad(corpus_name, indexes) THEN LoadedIndexes(indexes, corpus_name) ELSE indexes

SearchKeys(corpus_name) ==
  IF NeedsLoad(corpus_name, indexes) THEN LoadedKeys(indexKeys, corpus_name) ELSE indexKeys

\* line 635 applied to the stored records instead of a copy
SearchMetadata_tagged(corpus_name) ==
  LET md == IF NeedsLoad(corpus_name, indexes) THEN LoadedMetadata(metadata, corpus_name)
            ELSE metadata
  IN  [c \in DOMAIN md |->
         IF corpus_name = None \/ corpus_name = c
         THEN [i \in 1..Len(md[c]) |->
                 [f \in (DOMAIN md[c][i]) \cup {"corpus_name"} |->
                    IF f = "corpus_name" THEN c ELSE md[c][i][f]]]
         ELSE md[c]]

\* the stored records are not touched: line 633 annotates a copy of the record
SearchMetadata(corpus_name) ==
  IF NeedsLoad(corpus_name, indexes) THEN LoadedMetadata(metadata, corpus_name) ELSE metadata

\* a named corpus that cannot be loaded answered from every loaded corpus
SearchReturn_fallback(query, corpus_name, k) ==
  IF NeedsLoad(corpus_name, indexes) /\ ~CanLoad(corpus_name)
  THEN SearchLoaded(indexes, metadata, indexKeys, query, None, k, annTie)
  ELSE SearchLoaded(SearchIndexes(corpus_name), SearchMetadata(corpus_name),
                    SearchKeys(corpus_name), query, corpus_name, k, annTie)

\* what search_similar_texts returns
SearchReturn(query, corpus_name, k) ==
  IF NeedsLoad(corpus_name, indexes) /\ ~CanLoad(corpus_name) THEN <<>>
  ELSE SearchLoaded(SearchIndexes(corpus_name), SearchMetadata(corpus_name),
                    SearchKeys(corpus_name), query, corpus_name, k, annTie)

(***************************************************************************)
(* State                                                                   *)
(***************************************************************************)
\* the record of a call: its arguments, what it returned, and what it met and did:
\*   repeat       the call before it was the same call
\*   wasLoaded    the corpus had an index in the registry when the call began
\*   hadFiles     the corpus had both persisted files when the call began
\*   regChanged   the call changed self.indexes or self.metadata
\*   filesChanged the call changed a persisted index or metadata file
\*   corpusChanged the call changed a corpus file
\*   arg          the entries given to save_corpus
\*   savedBefore  the entries given to the save_corpus of the same corpus that was the
\*                call before it, if it was one
\*   raised       the exception the call ended with, "" if it returned
\*   encodeCalls  how often the call invoked embedding_model.encode
Call(op, corpus, lang, query, k, result, ret) ==
  [op |-> op, corpus |-> corpus, lang |-> lang, query |-> query, k |-> k,
   result |-> result, ret |-> ret,
   repeat |-> (last.op = op /\ last.corpus = corpus /\ last.lang = lang
               /\ last.query = query /\ last.k = k),
   wasLoaded |-> corpus \in DOMAIN indexes,
   hadFiles |-> CanLoad(corpus),
   regChanged |-> <<indexes, indexKeys, metadata>>' # <<indexes, indexKeys, metadata>>,
   filesChanged |-> <<indexFiles, metaFiles>>' # <<indexFiles, metaFiles>>,
   corpusChanged |-> corpusFiles' # corpusFiles,
   arg |-> <<>>,
   savedBefore |-> <<>>,
   raised |-> "",
   encodeCalls |-> 0]

WithArg(call, data) == [call EXCEPT !.arg = data]

\* a load_corpus call remembers what the save_corpus just before it was given
AfterSave(call) ==
  [call EXCEPT !.savedBefore =
     IF last.op = "save" /\ last.corpus = call.corpus THEN last.arg ELSE <<>>]

Outcome(call, raised, encodeCalls) ==
  [call EXCEPT !.raised = raised, !.encodeCalls = encodeCalls]

BuilderIdle == [pc |-> "idle", corpus |-> None, index |-> <<>>, meta |-> <<>>]

SearcherIdle ==
  [pc |-> "idle", corpus |-> None, query |-> "", k |-> 0, index |-> <<>>, hits |-> <<>>,
   meta |-> <<>>, result |-> <<>>, raised |-> ""]

SaverIdle == [pc |-> "idle", corpus |-> None, data |-> <<>>, old |-> <<>>, text |-> <<>>]

LoaderIdle ==
  [pc |-> "idle", corpus |-> None, result |-> <<>>, raised |-> "", versions |-> {}]

Init ==
  /\ corpusFiles = EmptyDict
  /\ indexFiles = EmptyDict
  /\ metaFiles = EmptyDict
  /\ indexes = EmptyDict
  /\ indexKeys = <<>>
  /\ metadata = EmptyDict
  /\ annTie \in {"low", "high"}
  /\ last = [op |-> "init", corpus |-> None, lang |-> "", query |-> "", k |-> 0,
             result |-> <<>>, ret |-> "", repeat |-> FALSE,
             wasLoaded |-> FALSE, hadFiles |-> FALSE,
             regChanged |-> FALSE, filesChanged |-> FALSE, corpusChanged |-> FALSE,
             arg |-> <<>>, savedBefore |-> <<>>, raised |-> "", encodeCalls |-> 0]
  /\ builder = BuilderIdle
  /\ searcher = SearcherIdle
  /\ registered = {}
  /\ saver = SaverIdle
  /\ loader = LoaderIdle

\* CorpusManager(): a fresh manager on the same corpus_dir
NewManager ==
  /\ indexes' = EmptyDict
  /\ indexKeys' = <<>>
  /\ metadata' = EmptyDict
  /\ UNCHANGED <<corpusFiles, indexFiles, metaFiles, annTie, threadVars>>
  /\ last' = Call("new", None, "", "", 0, <<>>, "")

SaveCorpus(corpus_name, data) ==
  /\ corpusFiles' = DictSet(corpusFiles, corpus_name, JsonDump(CorpusRecord(corpus_name, data)))
  /\ UNCHANGED <<indexFiles, metaFiles, indexes, indexKeys, metadata, annTie, threadVars>>
  /\ last' = WithArg(Call("save", corpus_name, "", "", 0, <<>>, ""), data)

\* load_corpus called on its own; a file json.load rejects raises
LoadCorpusCall(corpus_name) ==
  /\ UNCHANGED <<corpusFiles, indexFiles, metaFiles, indexes, indexKeys, metadata, annTie,
                 threadVars>>
  /\ last' = IF LoadCorpusRaises(corpus_name)
             THEN Outcome(Call("load_corpus", corpus_name, "", "", 0, <<>>, ""),
                          "JSONDecodeError", 0)
             ELSE AfterSave(Call("load_corpus", corpus_name, "", "", 0,
                                 LoadCorpus(corpus_name), ""))

\* the build without the return of lines 567-569
BuildOutcome_noTextsBuilt(corpus_name, source_lang) ==
  IF LoadCorpus(corpus_name) = <<>> THEN "no_data" ELSE "built"

\* which return of build_vector_index is taken
BuildOutcome(corpus_name, source_lang) ==
  IF LoadCorpus(corpus_name) = <<>> THEN "no_data"
  ELSE IF BuildTexts(LoadCorpus(corpus_name), source_lang) = <<>> THEN "no_texts"
  ELSE "built"

Built(corpus_name, source_lang) == BuildOutcome(corpus_name, source_lang) = "built"

\* the vectors index.add is given at line 580
NewVectors(corpus_name, source_lang) ==
  BuildIndex(BuildTexts(LoadCorpus(corpus_name), source_lang))

NewMetadata(corpus_name, source_lang) ==
  BuildMetadata(corpus_name, LoadCorpus(corpus_name), source_lang)

\* the vectors added to the index the registry already holds
BuiltIndexes_append(corpus_name, source_lang) ==
  DictSet(indexes, corpus_name,
          (IF corpus_name \in DOMAIN indexes THEN indexes[corpus_name] ELSE <<>>)
          \o NewVectors(corpus_name, source_lang))

\* lines 576-583: a fresh IndexFlatIP holding the new vectors, stored in self.indexes
BuiltIndexes(corpus_name, source_lang) ==
  DictSet(indexes, corpus_name, <<>> \o NewVectors(corpus_name, source_lang))

BuiltMetadata(corpus_name, source_lang) ==
  DictSet(metadata, corpus_name, NewMetadata(corpus_name, source_lang))

BuiltIndexFiles(corpus_name, source_lang) ==
  DictSet(indexFiles, corpus_name, BuiltIndexes(corpus_name, source_lang)[corpus_name])

\* a metadata file that exists is left as it is
BuiltMetaFiles_keepExisting(corpus_name, source_lang) ==
  IF corpus_name \in DOMAIN metaFiles THEN metaFiles
  ELSE DictSet(metaFiles, corpus_name, NewMetadata(corpus_name, source_lang))

BuiltMetaFiles(corpus_name, source_lang) ==
  DictSet(metaFiles, corpus_name, NewMetadata(corpus_name, source_lang))

\* line 573 is reached once, after both early returns
BuildEncodeCalls(corpus_name, source_lang) == IF Built(corpus_name, source_lang) THEN 1 ELSE 0

BuildVectorIndex(corpus_name, source_lang) ==
  /\ IF Built(corpus_name, source_lang)
     THEN /\ indexes' = BuiltIndexes(corpus_name, source_lang)
          /\ indexKeys' = KeysAfterSet(indexKeys, corpus_name)
          /\ metadata' = BuiltMetadata(corpus_name, source_lang)
          /\ indexFiles' = BuiltIndexFiles(corpus_name, source_lang)
          /\ metaFiles' = BuiltMetaFiles(corpus_name, source_lang)
     ELSE UNCHANGED <<indexes, indexKeys, metadata, indexFiles, metaFiles>>
  /\ UNCHANGED <<corpusFiles, annTie, threadVars>>
  /\ last' = Outcome(Call("build", corpus_name, source_lang, "", 0, <<>>,
                          BuildOutcome(corpus_name, source_lang)),
                     "", BuildEncodeCalls(corpus_name, source_lang))

LoadVectorIndex(corpus_name) ==
  /\ indexes' = LoadedIndexes(indexes, corpus_name)
  /\ indexKeys' = LoadedKeys(indexKeys, corpus_name)
  /\ metadata' = LoadedMetadata(metadata, corpus_name)
  /\ UNCHANGED <<corpusFiles, indexFiles, metaFiles, annTie, threadVars>>
  /\ last' = Call("load", corpus_name, "", "", 0, <<>>,
                  IF CanLoad(corpus_name) THEN "True" ELSE "False")

\* encode inside the loop over corpora_to_search
SearchEncodeCalls_perCorpus(corpus_name) ==
  IF NeedsLoad(corpus_name, indexes) /\ ~CanLoad(corpus_name) THEN 0
  ELSE Len(CorporaToSearch(corpus_name, SearchKeys(corpus_name)))

\* line 615 is reached once, before the loop, unless line 612 returned
SearchEncodeCalls(corpus_name) ==
  IF NeedsLoad(corpus_name, indexes) /\ ~CanLoad(corpus_name) THEN 0 ELSE 1

\* the corpora the loop of lines 623-636 searches: those of corpora_to_search that
\* have an index
SearchedCorpora(corpus_name) ==
  {c \in DOMAIN SearchIndexes(corpus_name) :
     \E i \in 1..Len(CorporaToSearch(corpus_name, SearchKeys(corpus_name))) :
       CorporaToSearch(corpus_name, SearchKeys(corpus_name))[i] = c}

\* line 632 reads self.metadata[corpus] of a corpus that has an index and no metadata
SearchKeyError(corpus_name) ==
  /\ ~(NeedsLoad(corpus_name, indexes) /\ ~CanLoad(corpus_name))
  /\ \E c \in SearchedCorpora(corpus_name) : c \notin DOMAIN SearchMetadata(corpus_name)

SearchSimilarTexts(query, corpus_name, k) ==
  /\ indexes' = SearchIndexes(corpus_name)
  /\ indexKeys' = SearchKeys(corpus_name)
  /\ metadata' = SearchMetadata(corpus_name)
  /\ UNCHANGED <<corpusFiles, indexFiles, metaFiles, annTie, threadVars>>
  /\ last' = IF SearchKeyError(corpus_name)
             THEN Outcome(Call("search", corpus_name, "", query, k, <<>>, ""),
                          "KeyError", 1)
             ELSE Outcome(Call("search", corpus_name, "", query, k,
                               SearchReturn(query, corpus_name, k), ""),
                          "", SearchEncodeCalls(corpus_name))

(***************************************************************************)
(* Context assembler: get_context_examples.  A returned string is the      *)
(* sequence of its pieces; the empty string is the empty sequence.         *)
(***************************************************************************)
GetLanguageName(code) ==
  CASE code = "es" -> "Spanish"
    [] code = "fr" -> "French"
    [] code = "de" -> "German"
    [] code = "it" -> "Italian"
    [] code = "pt" -> "Portuguese"
    [] code = "ja" -> "Japanese"
    [] code = "ko" -> "Korean"
    [] code = "zh" -> "Chinese"
    [] code = "ar" -> "Arabic"
    [] code = "hi" -> "Hindi"
    [] code = "ur" -> "Urdu"
    [] code = "ru" -> "Russian"
    [] code = "nl" -> "Dutch"
    [] code = "sv" -> "Swedish"
    [] code = "no" -> "Norwegian"
    [] code = "da" -> "Danish"
    [] code = "pl" -> "Polish"
    [] code = "tr" -> "Turkish"
    [] code = "he" -> "Hebrew"
    [] code = "th" -> "Thai"
    [] code = "vi" -> "Vietnamese"
    [] OTHER       -> code

Piece(kind, text) == [kind |-> kind, text |-> text]

\* the test of line 649
Eligible(result, target_language) ==
  /\ "en" \in DOMAIN result.translations
  /\ target_language \in DOMAIN result.translations

\* the f-string of line 650
FormatExample(result, target_language) ==
  Piece("example",
        << "English: \"", result.translations["en"], "\"\n",
           GetLanguageName(target_language), ": \"",
           result.translations[target_language], "\"" >>)

RECURSIVE ContextExamples_noBreak(_, _, _, _, _)
\* the loop without the break of lines 653-654
ContextExamples_noBreak(similar_texts, target_language, max_examples, from, n) ==
  IF from > Len(similar_texts) THEN <<>>
  ELSE (IF Eligible(similar_texts[from], target_language)
        THEN <<FormatExample(similar_texts[from], target_language)>> ELSE <<>>)
       \o ContextExamples_noBreak(similar_texts, target_language, max_examples,
                                  from + 1, n)

RECURSIVE ContextExamples(_, _, _, _, _)
\* the loop of lines 647-654 from result `from` on, n examples collected so far;
\* the length is tested after an example is appended
ContextExamples(similar_texts, target_language, max_examples, from, n) ==
  IF from > Len(similar_texts) THEN <<>>
  ELSE IF Eligible(similar_texts[from], target_language)
       THEN <<FormatExample(similar_texts[from], target_language)>>
            \o (IF n + 1 >= max_examples THEN <<>>
                ELSE ContextExamples(similar_texts, target_language, max_examples,
                                     from + 1, n + 1))
       ELSE ContextExamples(similar_texts, target_language, max_examples, from + 1, n)

RECURSIVE Join(_, _)
\* sep.join(pieces)
Join(pieces, sep) ==
  IF Len(pieces) <= 1 THEN pieces
  ELSE <<Head(pieces), sep>> \o Join(Tail(pieces), sep)

\* lines 656-658
ContextString(context_examples) ==
  IF context_examples # <<>>
  THEN <<Piece("text", <<"Translation examples:\n">>)>>
       \o Join(context_examples, Piece("text", <<"\n\n">>))
       \o <<Piece("text", <<"\n\n">>)>>
  ELSE <<>>

\* a search for max_examples results only, without the over-fetch of line 644
ContextSearch_exactlyN(query, max_examples) ==
  SearchLoaded(indexes, metadata, indexKeys, query, None, max_examples, annTie)

\* line 644: the cross-corpus search for 2 * max_examples results
ContextSearch(query, max_examples) ==
  SearchLoaded(indexes, metadata, indexKeys, query, None, max_examples * 2, annTie)

\* IndexFlatIP.search asked for k = 0 results: a build of the index service either
\* rejects it (AssertionError) or answers with no hits
FaissZeroK == {"raises", "empty"}

ContextRaises(max_examples, zeroK) ==
  max_examples * 2 = 0 /\ indexes # EmptyDict /\ zeroK = "raises"

GetContextExamples(query, target_language, max_examples, zeroK) ==
  /\ UNCHANGED <<corpusFiles, indexFiles, metaFiles, indexes, indexKeys, metadata, annTie,
                 threadVars>>
  /\ last' = IF ContextRaises(max_examples, zeroK)
             THEN Outcome(Call("context", None, target_language, query, max_examples,
                               <<>>, ""),
                          "AssertionError", 1)
             ELSE Outcome(Call("context", None, target_language, query, max_examples,
                               ContextString(ContextExamples(
                                 ContextSearch(query, max_examples), target_language,
                                 max_examples, 1, 0)),
                               ""),
                          "", 1)

(***************************************************************************)
(* initialize_all_corpora                                                  *)
(***************************************************************************)
\* the keys of self.corpus_sources, in the order of the dict
CorpusSources == <<"medical_terminology", "legal_formal">>

SourceNames == {CorpusSources[i] : i \in 1..Len(CorpusSources)}

eAgreement == [en |-> "Legal agreement", es |-> "Acuerdo legal"]

\* the sample entries create_sample_corpora writes; every one of them has 'en'
SampleCorpora ==
  [c \in SourceNames |->
     IF c = "legal_formal" THEN <<eCourt, eAgreement>> ELSE <<eBlood>>]

\* the corpus files after create_sample_corpora: save_corpus for every sample corpus
CreateSampleCorpora(files) ==
  [c \in (DOMAIN files) \cup SourceNames |->
     IF c \in SourceNames THEN JsonDump(CorpusRecord(c, SampleCorpora[c])) ELSE files[c]]

\* what load_corpus gives build_vector_index once the sample corpora are written
SampleData(corpus_name) ==
  JsonGet(CreateSampleCorpora(corpusFiles)[corpus_name], "data", <<>>)

\* line 696: load_vector_index returned False, and the build went past both
\* early returns
InitBuilt(corpus_name) ==
  /\ ~CanLoad(corpus_name)
  /\ SampleData(corpus_name) # <<>>
  /\ BuildTexts(SampleData(corpus_name), "en") # <<>>

InitRegistered(corpus_name) == CanLoad(corpus_name) \/ InitBuilt(corpus_name)

\* the index the loop of lines 695-697 registers: the persisted one when both files
\* are there, else a new one over the sample corpus
InitIndex(corpus_name) ==
  IF CanLoad(corpus_name) THEN indexFiles[corpus_name]
  ELSE BuildIndex(BuildTexts(SampleData(corpus_name), "en"))

InitMetadata(corpus_name) ==
  IF CanLoad(corpus_name) THEN metaFiles[corpus_name]
  ELSE BuildMetadata(corpus_name, SampleData(corpus_name), "en")

RECURSIVE InitKeys(_, _)
InitKeys(keys, from) ==
  IF from > Len(CorpusSources) THEN keys
  ELSE InitKeys(IF InitRegistered(CorpusSources[from])
                THEN KeysAfterSet(keys, CorpusSources[from]) ELSE keys,
                from + 1)

InitializeAllCorpora ==
  /\ corpusFiles' = CreateSampleCorpora(corpusFiles)
  /\ indexes' = [c \in (DOMAIN indexes) \cup {x \in SourceNames : InitRegistered(x)} |->
                   IF c \in SourceNames /\ InitRegistered(c) THEN InitIndex(c)
                   ELSE indexes[c]]
  /\ metadata' = [c \in (DOMAIN metadata) \cup {x \in SourceNames : InitRegistered(x)} |->
                    IF c \in SourceNames /\ InitRegistered(c) THEN InitMetadata(c)
                    ELSE metadata[c]]
  /\ indexKeys' = InitKeys(indexKeys, 1)
  /\ indexFiles' = [c \in (DOMAIN indexFiles) \cup {x \in SourceNames : InitBuilt(x)} |->
                      IF c \in SourceNames /\ InitBuilt(c) THEN InitIndex(c)
                      ELSE indexFiles[c]]
  /\ metaFiles' = [c \in (DOMAIN metaFiles) \cup {x \in SourceNames : InitBuilt(x)} |->
                     IF c \in SourceNames /\ InitBuilt(c) THEN InitMetadata(c)
                     ELSE metaFiles[c]]
  /\ UNCHANGED <<annTie, threadVars>>
  /\ last' = Call("initialize", None, "en", "", 0, <<>>, "")

Next ==
  \/ NewManager
  \/ \E c \in Names, d \in DataPool : SaveCorpus(c, d)
  \/ \E c \in Names : LoadCorpusCall(c)
  \/ \E c \in Names, l \in Langs : BuildVectorIndex(c, l)
  \/ \E c \in Names : LoadVectorIndex(c)
  \/ \E q \in Queries, c \in Names \cup {None}, k \in Ks : SearchSimilarTexts(q, c, k)

Spec == Init /\ [][Next]_vars

(***************************************************************************)
(* Calls that fail part-way: a call out to the embedding provider, the     *)
(* index service or the file system raises, and the statements before it   *)
(* have taken effect.  No call of the manager catches an exception.        *)
(***************************************************************************)
BuildFaults == {"encode", "add", "write_index", "write_metadata"}

LoadFaults == {"read_index", "load_metadata"}

SearchFaults == {"encode", "search"}

\* the exception the failing call out raises, which is what the caller sees
Raised(at) ==
  CASE at = "encode" -> "EmbeddingError"
    [] at \in {"add", "search", "read_index", "write_index"} -> "IndexServiceError"
    [] OTHER -> "OSError"

\* build_vector_index raising at line 573 (encode), 576-580 (add), 590 (write_index)
\* or 591-592 (write_metadata)
BuildFails(corpus_name, source_lang, at) ==
  /\ Built(corpus_name, source_lang)
  /\ IF at \in {"write_index", "write_metadata"}
     THEN /\ indexes' = BuiltIndexes(corpus_name, source_lang)
          /\ indexKeys' = KeysAfterSet(indexKeys, corpus_name)
          /\ metadata' = BuiltMetadata(corpus_name, source_lang)
     ELSE UNCHANGED <<indexes, indexKeys, metadata>>
  /\ indexFiles' = IF at = "write_metadata" THEN BuiltIndexFiles(corpus_name, source_lang)
                   ELSE indexFiles
  /\ UNCHANGED <<corpusFiles, metaFiles, annTie, threadVars>>
  /\ last' = Outcome(Call("build", corpus_name, source_lang, "", 0, <<>>, at),
                     Raised(at), BuildEncodeCalls(corpus_name, source_lang))

\* load_vector_index raising at line 602 (read_index) or 603-604 (load_metadata)
LoadFails(corpus_name, at) ==
  /\ CanLoad(corpus_name)
  /\ IF at = "load_metadata"
     THEN /\ indexes' = DictSet(indexes, corpus_name, indexFiles[corpus_name])
          /\ indexKeys' = KeysAfterSet(indexKeys, corpus_name)
     ELSE UNCHANGED <<indexes, indexKeys>>
  /\ UNCHANGED <<corpusFiles, indexFiles, metaFiles, metadata, annTie, threadVars>>
  /\ last' = Outcome(Call("load", corpus_name, "", "", 0, <<>>, at), Raised(at), 0)

\* search_similar_texts raising at line 615 (encode) or at the first index searched,
\* line 628 (search)
SearchFails(query, corpus_name, k, at) ==
  /\ ~(NeedsLoad(corpus_name, indexes) /\ ~CanLoad(corpus_name))
  /\ (at = "search") => (SearchedCorpora(corpus_name) # {})
  /\ indexes' = SearchIndexes(corpus_name)
  /\ indexKeys' = SearchKeys(corpus_name)
  /\ metadata' = SearchMetadata(corpus_name)
  /\ UNCHANGED <<corpusFiles, indexFiles, metaFiles, annTie, threadVars>>
  /\ last' = Outcome(Call("search", corpus_name, "", query, k, <<>>, at), Raised(at),
                     SearchEncodeCalls(corpus_name))

\* the corpus whose calls fail, and a second corpus that is saved and built without
\* failure so that a search has two corpora to go over
FailName == "legal_formal"

OtherName == "medical_terminology"

FailQueries == {"Court hearing"}

FailLangs == {"en", "es"}

NextFail ==
  \/ NewManager
  \/ \E d \in DataPool : SaveCorpus(FailName, d)
  \/ SaveCorpus(OtherName, <<eEsOnly, eBlood>>)
  \/ \E l \in FailLangs : BuildVectorIndex(FailName, l)
  \/ BuildVectorIndex(OtherName, "en")
  \/ LoadVectorIndex(FailName)
  \/ \E q \in FailQueries, c \in {FailName, None} : SearchSimilarTexts(q, c, MaxK)
  \/ \E l \in FailLangs, at \in BuildFaults : BuildFails(FailName, l, at)
  \/ \E at \in LoadFaults : LoadFails(FailName, at)
  \/ \E q \in FailQueries, c \in {FailName, None}, at \in SearchFaults :
       SearchFails(q, c, MaxK, at)

SpecFail == Init /\ [][NextFail]_vars

\* vector i (0-based) of the loaded corpus c is the embedding of text, a text of the
\* entry that metadata record i holds
IsIndexedText(c, i, text) ==
  /\ \E l \in DOMAIN metadata[c][i + 1].translations :
       metadata[c][i + 1].translations[l] = text
  /\ indexes[c][i + 1] = NormalizeL2(Encode(text))

IndexedTexts(c) ==
  IF c \notin DOMAIN indexes THEN {}
  ELSE UNION { {metadata[c][i + 1].translations[l] :
                  l \in {x \in DOMAIN metadata[c][i + 1].translations :
                           IsIndexedText(c, i, metadata[c][i + 1].translations[x])}} :
               i \in 0..(Len(indexes[c]) - 1) }

\* corpora are saved and built, and a built corpus is searched for a text it indexed
NextSelf ==
  \/ \E c \in Names, d \in DataPool : SaveCorpus(c, d)
  \/ \E c \in Names, l \in Langs : BuildVectorIndex(c, l)
  \/ \E c \in Names, k \in Ks : \E q \in IndexedTexts(c) : SearchSimilarTexts(q, c, k)

SpecSelf == Init /\ [][NextSelf]_vars

\* the manager as the translation step uses it: corpora are saved and built, and
\* context is asked for
NextContext ==
  \/ \E c \in Names, d \in DataPool : SaveCorpus(c, d)
  \/ \E c \in Names, l \in Langs : BuildVectorIndex(c, l)
  \/ \E q \in Queries, t \in Targets, n \in 0..MaxExamples, z \in FaissZeroK :
       GetContextExamples(q, t, n, z)

SpecContext == Init /\ [][NextContext]_vars

\* runs of the application: corpora are saved and built, the process is restarted,
\* and initialize_all_corpora is called
NextInit ==
  \/ NewManager
  \/ \E c \in Names, d \in DataPool : SaveCorpus(c, d)
  \/ \E c \in Names, l \in Langs : BuildVectorIndex(c, l)
  \/ InitializeAllCorpora

SpecInit == Init /\ [][NextInit]_vars

\* the corpus names a caller may pass to a search: a name is any string
GivenNames == Names \cup {""}

\* corpora are saved and built, and searches name a corpus
NextNamed ==
  \/ NewManager
  \/ \E c \in Names, d \in DataPool : SaveCorpus(c, d)
  \/ \E c \in Names : BuildVectorIndex(c, "en")
  \/ \E q \in Queries, c \in GivenNames, k \in Ks : SearchSimilarTexts(q, c, k)

SpecNamed == Init /\ [][NextNamed]_vars

(***************************************************************************)
(* Properties of search_similar_texts                                      *)
(***************************************************************************)
Min(a, b) == IF a < b THEN a ELSE b

IsSearch == last.op = "search"

\* the corpora the last search looked in: those of corpora_to_search with an index
SearchedSet ==
  IF last.corpus = None THEN DOMAIN indexes ELSE {last.corpus} \cap DOMAIN indexes

RECURSIVE SumLen(_, _)
SumLen(idx, S) ==
  IF S = {} THEN 0
  ELSE LET c == CHOOSE x \in S : TRUE IN Len(idx[c]) + SumLen(idx, S \ {c})

\* T: the indexed entries over the searched corpora
TotalIndexed == SumLen(indexes, SearchedSet)

\* the inner product of the query of the last search with vector i (0-based) of corpus c
ScoreOf(c, i) == Dot(NormalizeL2(Encode(last.query)), indexes[c][i + 1])

\* entry i (0-based index position) of corpus c is in the last result
InResult(c, i) ==
  \E n \in 1..Len(last.result) :
    /\ last.result[n].corpus_name = c
    /\ last.result[n].index = metadata[c][i + 1].index

\* C1: a search returns exactly min(k, T) results, T the number of indexed entries
\* over the searched corpora; a corpus with n < k entries yields n results, no padding.
C1_ExactlyMinKTotal ==
  IsSearch => Len(last.result) = Min(last.k, TotalIndexed)

\* C2: no two results of a search share the same (corpus_name, entry position) pair.
C2_NoDuplicatePairs ==
  IsSearch =>
    \A m, n \in 1..Len(last.result) :
      (m # n) =>
        ~(/\ last.result[m].corpus_name = last.result[n].corpus_name
          /\ last.result[m].index = last.result[n].index)

\* C3: every returned list is ordered by similarity_score, non-increasing, for
\* single-corpus and cross-corpus searches alike.
C3_SortedDescending ==
  IsSearch =>
    \A n \in 1..(Len(last.result) - 1) :
      last.result[n].similarity_score >= last.result[n + 1].similarity_score

\* a cross-corpus search over two corpora whose results differ in score, the better
\* one coming from the corpus that is second in registry order
C3_Witness ==
  /\ IsSearch
  /\ last.corpus = None
  /\ Len(indexKeys) = 2
  /\ Len(last.result) = 2
  /\ last.result[1].similarity_score > last.result[2].similarity_score
  /\ last.result[1].corpus_name = indexKeys[2]

\* C4: a cross-corpus search returns the k globally best entries: an indexed entry
\* that is not in the result scores no higher than any result; for k = 1 the result
\* is the best of the per-corpus k = 1 searches.
C4_CrossCorpusBest ==
  (IsSearch /\ last.corpus = None) =>
    /\ \A c \in DOMAIN indexes : \A i \in 0..(Len(indexes[c]) - 1) :
         ~InResult(c, i) =>
           \A n \in 1..Len(last.result) : ScoreOf(c, i) <= last.result[n].similarity_score
    /\ (TotalIndexed > 0) => (Len(last.result) > 0)
    /\ (last.k = 1 /\ indexes # EmptyDict) =>
         LET PerCorpus ==
               {SearchLoaded(indexes, metadata, indexKeys, last.query, c, 1, annTie) :
                  c \in DOMAIN indexes}
         IN  /\ last.result \in PerCorpus
             /\ \A r \in PerCorpus :
                  r[1].similarity_score <= last.result[1].similarity_score

\* a k = 1 search over two loaded corpora won by the second in registry order, an
\* entry of the first scoring strictly lower
C4_Witness ==
  /\ IsSearch
  /\ last.corpus = None
  /\ last.k = 1
  /\ Len(indexKeys) = 2
  /\ Len(last.result) = 1
  /\ last.result[1].corpus_name = indexKeys[2]
  /\ TotalIndexed >= 3
  /\ \E i \in 0..(Len(indexes[indexKeys[1]]) - 1) :
       ScoreOf(indexKeys[1], i) < last.result[1].similarity_score

\* C5 as stated: a cross-corpus search also searches the corpora that only have a
\* persisted index, loading them on first use, so that it returns results from them.
C5_LazyLoadsPersisted ==
  (IsSearch /\ last.corpus = None) =>
    /\ \A c \in Names : CanLoad(c) => c \in DOMAIN indexes
    /\ (\E c \in Names : CanLoad(c)) => last.result # <<>>

\* C5 amended: a cross-corpus search searches exactly the corpora that have a loaded
\* index in the registry and loads nothing: the registry is unchanged, every result
\* comes from a loaded corpus, the first result is the best entry of all loaded
\* corpora, and the result is empty exactly when no corpus is loaded, persisted
\* indexes or not.
C5_SearchesLoadedOnly ==
  (IsSearch /\ last.corpus = None) =>
    /\ ~last.regChanged
    /\ \A n \in 1..Len(last.result) : last.result[n].corpus_name \in DOMAIN indexes
    /\ (last.result = <<>>) <=> (indexes = EmptyDict)
    /\ \A c \in DOMAIN indexes : \A i \in 0..(Len(indexes[c]) - 1) :
         ScoreOf(c, i) <= last.result[1].similarity_score

\* a fresh manager over persisted indexes: its cross-corpus search returns nothing
C5_Witness ==
  /\ IsSearch
  /\ last.corpus = None
  /\ indexes = EmptyDict
  /\ \E c \in Names : CanLoad(c)
  /\ last.result = <<>>

\* C6: a search of a named corpus with no registry entry and no persisted
\* index/metadata pair returns the empty list and leaves the registry unchanged.
C6_AbsentCorpusEmpty ==
  (IsSearch /\ last.corpus \in Names /\ ~last.wasLoaded /\ ~last.hadFiles) =>
    /\ last.result = <<>>
    /\ ~last.regChanged
    /\ last.corpus \notin DOMAIN indexes
    /\ last.corpus \notin DOMAIN metadata

\* such a search while another corpus is loaded
C6_Witness ==
  /\ IsSearch
  /\ last.corpus \in Names
  /\ ~last.wasLoaded
  /\ ~last.hadFiles
  /\ indexes # EmptyDict
  /\ last.result = <<>>

\* C18: self-similarity: a search of a built corpus for the exact text of an indexed
\* entry, k >= 1, returns that entry first or tied with the first: the first result
\* has the entry's score and no result scores higher.
C18_SelfSimilarity ==
  (IsSearch /\ last.corpus \in DOMAIN indexes) =>
    \A i \in 0..(Len(indexes[last.corpus]) - 1) :
      IsIndexedText(last.corpus, i, last.query) =>
        /\ last.result # <<>>
        /\ last.result[1].similarity_score = ScoreOf(last.corpus, i)
        /\ \A n \in 1..Len(last.result) :
             last.result[n].similarity_score <= ScoreOf(last.corpus, i)
        /\ \/ last.result[1].index = metadata[last.corpus][i + 1].index
           \/ \E j \in 0..(Len(indexes[last.corpus]) - 1) :
                j # i /\ ScoreOf(last.corpus, j) = ScoreOf(last.corpus, i)

\* a search for the text of the second vector of an index: it comes first, ahead of
\* the entry of the first vector, which scores lower
C18_Witness ==
  /\ IsSearch
  /\ last.corpus \in DOMAIN indexes
  /\ Len(indexes[last.corpus]) = 2
  /\ IsIndexedText(last.corpus, 1, last.query)
  /\ Len(last.result) = 2
  /\ last.result[1].index = metadata[last.corpus][2].index
  /\ last.result[2].index = metadata[last.corpus][1].index
  /\ last.result[2].similarity_score < last.result[1].similarity_score

\* a position that names a metadata record: 0 .. len(metadata[corpus]) - 1
InRange(hit, md) == hit.idx >= 0 /\ hit.idx < Len(md)

RECURSIVE InRangeResults(_, _, _, _)
\* the results of the hits of one corpus whose position is in range, in hit order
InRangeResults(corpus, hits, md, from) ==
  IF from > Len(hits) THEN <<>>
  ELSE (IF InRange(hits[from], md) THEN <<MakeResult(corpus, hits[from], md)>> ELSE <<>>)
       \o InRangeResults(corpus, hits, md, from + 1)

RECURSIVE InRangeCandidates(_, _)
\* the in-range candidates of the corpora the last search went over, in searched order
InRangeCandidates(corpora, from) ==
  IF from > Len(corpora) THEN <<>>
  ELSE (IF corpora[from] \notin DOMAIN indexes THEN <<>>
        ELSE InRangeResults(corpora[from],
                            FaissSearch(indexes[corpora[from]], QueryVector(last.query),
                                        last.k, annTie),
                            metadata[corpora[from]], 1))
       \o InRangeCandidates(corpora, from + 1)

\* C21: every position the index service returns that lies outside
\* 0 .. len(metadata[corpus]) - 1, too large or negative, is dropped without an
\* error, and the in-range candidates of that and the other corpora are still
\* returned: the result is the best k of the in-range candidates.
C21_OutOfRangeDropped ==
  IsSearch =>
    /\ last.raised = ""
    /\ last.result =
         Take(SortByScore(InRangeCandidates(CorporaToSearch(last.corpus, indexKeys), 1)),
              last.k)

Reverse(seq) == [i \in 1..Len(seq) |-> seq[Len(seq) + 1 - i]]

\* the registry key orders that building or loading the same corpora in another
\* order gives (at most two corpora are ever loaded)
KeyOrders == {indexKeys, Reverse(indexKeys)}

\* the last search made against a registry with the same contents in key order keys
SearchWithKeys(keys) ==
  SearchLoaded(indexes, metadata, keys, last.query, last.corpus, last.k, annTie)

\* the candidates of the last search before the sort
Candidates ==
  Gather(indexes, metadata, CorporaToSearch(last.corpus, indexKeys),
         QueryVector(last.query), last.k, annTie, 1)

\* two candidates of different corpora have the same score
CrossCorpusTie ==
  \E m, n \in 1..Len(Candidates) :
    /\ Candidates[m].corpus_name # Candidates[n].corpus_name
    /\ Candidates[m].similarity_score = Candidates[n].similarity_score

\* the place a stable descending sort gives candidate i: after every candidate with
\* a higher score and after the earlier candidates with the same score
StableRank(i) ==
  1 + Cardinality({j \in 1..Len(Candidates) :
                     \/ Candidates[j].similarity_score > Candidates[i].similarity_score
                     \/ /\ Candidates[j].similarity_score = Candidates[i].similarity_score
                        /\ j < i})

\* C22: the merge is a stable sort: among results with the same score those of a
\* corpus earlier in the searched order come first, and results of one corpus keep
\* the order in which its index returned them.
C22_StableMerge ==
  (IsSearch /\ last.raised = "") =>
    /\ Len(last.result) = Min(last.k, Len(Candidates))
    /\ \A i \in 1..Len(Candidates) :
         (StableRank(i) <= Len(last.result)) => (last.result[StableRank(i)] = Candidates[i])

\* a cross-corpus search whose two results have the same score and come from the two
\* loaded corpora, in registry order
C22_Witness ==
  /\ IsSearch
  /\ last.corpus = None
  /\ Len(indexKeys) = 2
  /\ Len(last.result) = 2
  /\ last.result[1].similarity_score = last.result[2].similarity_score
  /\ last.result[1].corpus_name = indexKeys[1]
  /\ last.result[2].corpus_name = indexKeys[2]

\* C19 as stated: a search returns the same list, in the same order, against every
\* registry that holds the same corpora with the same contents, in whatever order
\* they were built or loaded.
C19_OrderIndependent ==
  (IsSearch /\ last.raised = "") =>
    \A keys \in KeyOrders : SearchWithKeys(keys) = last.result

\* C19 amended: against registries with the same contents a search returns lists of
\* the same length with the same scores position by position; the lists are equal
\* when the registries hold the corpora in the same order, when the search names a
\* corpus, or when no two candidates of different corpora have the same score.
C19_DeterministicUpToTies ==
  (IsSearch /\ last.raised = "") =>
    /\ SearchWithKeys(indexKeys) = last.result
    /\ \A keys \in KeyOrders :
         /\ Len(SearchWithKeys(keys)) = Len(last.result)
         /\ \A n \in 1..Len(last.result) :
              SearchWithKeys(keys)[n].similarity_score = last.result[n].similarity_score
         /\ (last.corpus # None \/ ~CrossCorpusTie) => (SearchWithKeys(keys) = last.result)

\* a cross-corpus search, empty query, over two loaded corpora whose results come
\* from both corpora with different scores
C19_Witness ==
  /\ IsSearch
  /\ last.corpus = None
  /\ last.query = ""
  /\ Len(indexKeys) = 2
  /\ ~CrossCorpusTie
  /\ Len(last.result) = 2
  /\ last.result[1].corpus_name # last.result[2].corpus_name
  /\ last.result[1].similarity_score > last.result[2].similarity_score

(***************************************************************************)
(* Properties of build_vector_index and the registry                       *)
(***************************************************************************)
\* record i of md is the entry whose text in some one language produced vector i
Aligned(index, md) ==
  /\ Len(md) = Len(index)
  /\ \E l \in Langs : \A i \in 1..Len(md) :
       /\ l \in DOMAIN md[i].translations
       /\ index[i] = NormalizeL2(Encode(md[i].translations[l]))

\* C7: in every reachable state, for every corpus in the registry the metadata
\* sequence has the length of the index and record i is the entry whose
\* source-language text produced vector i.
C7_IndexMetadataAligned ==
  /\ DOMAIN indexes = DOMAIN metadata
  /\ \A c \in DOMAIN indexes : Aligned(indexes[c], metadata[c])

\* a build that skipped the first entry of the corpus: record 0 is entry 1
C7_Witness ==
  /\ last.op = "build"
  /\ last.ret = "built"
  /\ last.corpus \in DOMAIN indexes
  /\ Len(indexes[last.corpus]) = 1
  /\ metadata[last.corpus][1].index = 1
  /\ Len(LoadCorpus(last.corpus)) = 2

\* the 0-based positions of the entries of data that contain lang
ExpectedPositions(data, lang) ==
  {p \in 0..(Len(data) - 1) : lang \in DOMAIN data[p + 1]}

\* index and md are what a build of corpus c, holding data, makes for lang
IsDerived(index, md, c, data, lang) ==
  /\ Len(md) = Cardinality(ExpectedPositions(data, lang))
  /\ Len(index) = Len(md)
  /\ {md[i].index : i \in 1..Len(md)} = ExpectedPositions(data, lang)
  /\ \A i, j \in 1..Len(md) : (i < j) => (md[i].index < md[j].index)
  /\ \A i \in 1..Len(md) :
       /\ md[i].corpus = c
       /\ md[i].translations = data[md[i].index + 1]
       /\ index[i] = NormalizeL2(Encode(data[md[i].index + 1][lang]))

\* C8 as stated: after a build, whatever the corpus now contains, any persisted
\* index and metadata and any registry entry of that corpus are the ones derived
\* (for some source language) from the corpus as currently stored.
C8_NoEarlierBuildSurvives ==
  (last.op = "build") =>
    /\ (last.corpus \in DOMAIN indexFiles \/ last.corpus \in DOMAIN metaFiles) =>
         /\ CanLoad(last.corpus)
         /\ \E l \in Langs :
              IsDerived(indexFiles[last.corpus], metaFiles[last.corpus], last.corpus,
                        LoadCorpus(last.corpus), l)
    /\ (last.corpus \in DOMAIN indexes \/ last.corpus \in DOMAIN metadata) =>
         /\ last.corpus \in DOMAIN indexes \cap DOMAIN metadata
         /\ \E l \in Langs :
              IsDerived(indexes[last.corpus], metadata[last.corpus], last.corpus,
                        LoadCorpus(last.corpus), l)

\* C8 amended: after a build of a corpus that holds at least one entry containing
\* the source language, the persisted index and metadata and the registry entry are
\* the ones derived from the corpus as currently stored.
C8_RebuildReplaces ==
  (last.op = "build") =>
    /\ (last.ret = "built") <=> (ExpectedPositions(LoadCorpus(last.corpus), last.lang) # {})
    /\ (last.ret = "built") =>
         /\ CanLoad(last.corpus)
         /\ last.corpus \in DOMAIN indexes \cap DOMAIN metadata
         /\ IsDerived(indexFiles[last.corpus], metaFiles[last.corpus], last.corpus,
                      LoadCorpus(last.corpus), last.lang)
         /\ IsDerived(indexes[last.corpus], metadata[last.corpus], last.corpus,
                      LoadCorpus(last.corpus), last.lang)

\* a rebuild that replaced the persisted files of an earlier build
C8_Witness ==
  /\ last.op = "build"
  /\ last.ret = "built"
  /\ last.hadFiles
  /\ last.wasLoaded
  /\ last.filesChanged
  /\ last.regChanged

\* C9: build is idempotent: a build that follows the same build, the corpus file
\* unchanged in between, leaves the registry and the persisted files as they were.
C9_BuildIdempotent ==
  (last.op = "build" /\ last.repeat) => (~last.regChanged /\ ~last.filesChanged)

\* the second of two builds in a row that each made a two-vector index
C9_Witness ==
  /\ last.op = "build"
  /\ last.repeat
  /\ last.ret = "built"
  /\ Len(indexes[last.corpus]) = 2
  /\ Len(indexFiles[last.corpus]) = 2

\* the metadata sequence the last build made: the one it registered, or the (empty)
\* one it had collected when it returned early
LastBuildMetadata ==
  IF last.ret = "built" THEN metadata[last.corpus]
  ELSE BuildMetadata(last.corpus, LoadCorpus(last.corpus), last.lang)

C15_BuildNothingToIndex ==
  (last.op = "build" /\ ExpectedPositions(LoadCorpus(last.corpus), last.lang) = {}) =>
    /\ last.raised = ""
    /\ last.ret \in {"no_data", "no_texts"}
    /\ last.encodeCalls = 0
    /\ ~last.regChanged
    /\ ~last.filesChanged
    /\ ~last.corpusChanged

\* a build for a language no entry has, of a corpus that holds entries and already
\* has an index in the registry and on disk
C15_Witness ==
  /\ last.op = "build"
  /\ last.ret = "no_texts"
  /\ LoadCorpus(last.corpus) # <<>>
  /\ last.wasLoaded
  /\ last.hadFiles

\* index and md are the index and the metadata that one build of corpus c makes
SameBuild(index, md, c) ==
  \E d \in DataPool, l \in Langs :
    /\ index = BuildIndex(BuildTexts(d, l))
    /\ md = BuildMetadata(c, d, l)

\* C11: index and metadata are replaced and loaded as a pair: in every reachable
\* state, also after a build or a load that failed part-way, the persisted index
\* file and metadata file of a corpus come from the same build, and the registry
\* holds an index for a corpus if and only if it holds its metadata.
C11_PairedAlways ==
  \A c \in Names :
    /\ (c \in DOMAIN indexes) <=> (c \in DOMAIN metadata)
    /\ (c \in DOMAIN indexFiles) <=> (c \in DOMAIN metaFiles)
    /\ CanLoad(c) => SameBuild(indexFiles[c], metaFiles[c], c)

\* C24: a build that raises at any step (embedding, index add, writing the index
\* file, writing the metadata file) fails outright: the registry entry and the
\* persisted index and metadata of the corpus are what they were before the call.
C24_BuildFailsOutright ==
  (last.op = "build" /\ last.raised # "") =>
    /\ ~last.regChanged
    /\ ~last.filesChanged

\* the registry of a manager that was just constructed on this storage and has
\* called load_vector_index(corpus_name)
FreshIndexes(corpus_name) == LoadedIndexes(EmptyDict, corpus_name)

FreshKeys(corpus_name) == LoadedKeys(<<>>, corpus_name)

FreshMetadata(corpus_name) == LoadedMetadata(EmptyDict, corpus_name)

\* C27: after a build, load_vector_index in a fresh manager on the same storage
\* returns True and registers a pair with which every search of the corpus returns
\* what it returns in the manager that built it; load_vector_index returns False and
\* leaves the registry unchanged when either persisted file is missing.
C27_PersistenceRoundTrip ==
  /\ (last.op = "build" /\ last.ret = "built" /\ last.raised = "") =>
       /\ CanLoad(last.corpus)
       /\ last.corpus \in DOMAIN FreshIndexes(last.corpus)
       /\ last.corpus \in DOMAIN FreshMetadata(last.corpus)
       /\ \A q \in Queries, k \in Ks :
            SearchLoaded(FreshIndexes(last.corpus), FreshMetadata(last.corpus),
                         FreshKeys(last.corpus), q, last.corpus, k, annTie)
              = SearchLoaded(indexes, metadata, indexKeys, q, last.corpus, k, annTie)
  /\ (last.op = "load" /\ last.raised = "") =>
       /\ (last.ret = "True") <=> last.hadFiles
       /\ (last.ret = "True") =>
            /\ last.corpus \in DOMAIN indexes
            /\ last.corpus \in DOMAIN metadata
            /\ indexes[last.corpus] = indexFiles[last.corpus]
            /\ metadata[last.corpus] = metaFiles[last.corpus]
       /\ (last.ret = "False") => ~last.regChanged

\* a manager without the corpus in its registry loaded the persisted pair, and a
\* search of the corpus finds an entry with it
C27_Witness ==
  /\ last.op = "load"
  /\ last.ret = "True"
  /\ ~last.wasLoaded
  /\ last.regChanged
  /\ DOMAIN indexes = {last.corpus}
  /\ SearchLoaded(indexes, metadata, indexKeys, "Court hearing", last.corpus, 1, annTie)
       # <<>>

\* load_vector_index returned False with the index file present and the metadata
\* file missing
C27_OneFileMissing ==
  /\ last.op = "load"
  /\ last.ret = "False"
  /\ last.corpus \in DOMAIN indexFiles
  /\ last.corpus \notin DOMAIN metaFiles

\* C28: after initialize_all_corpora returns, every corpus of corpus_sources has an
\* index and metadata in the registry, and its metadata consists of exactly the
\* entries the corpus store now holds for it, also when index and metadata files of
\* an earlier run over other corpus contents were on storage.
C28_InitializedFromStore ==
  (last.op = "initialize") =>
    \A c \in SourceNames :
      /\ c \in DOMAIN indexes
      /\ c \in DOMAIN metadata
      /\ Len(metadata[c]) = Len(LoadCorpus(c))
      /\ Len(indexes[c]) = Len(LoadCorpus(c))
      /\ \A i \in 1..Len(metadata[c]) :
           /\ metadata[c][i].index = i - 1
           /\ metadata[c][i].translations = LoadCorpus(c)[i]

\* initialize_all_corpora on storage without index files: every corpus is built
\* from the sample entries
C28_FreshStorage ==
  /\ last.op = "initialize"
  /\ last.filesChanged
  /\ \A c \in SourceNames :
       /\ c \in DOMAIN indexes
       /\ Len(metadata[c]) = Len(LoadCorpus(c))

RecordFields == {"corpus", "index", "translations"}

\* the step is a call of search_similar_texts
SearchStep == last'.op = "search" /\ last'.raised = ""

\* the registry after the step is the registry before it, with at most the pair of
\* the named corpus added from its persisted files
RegistryKeptOrLoaded ==
  /\ \A c \in DOMAIN indexes : c \in DOMAIN indexes' /\ indexes'[c] = indexes[c]
  /\ \A c \in DOMAIN metadata : c \in DOMAIN metadata' /\ metadata'[c] = metadata[c]
  /\ \A c \in (DOMAIN indexes') \ (DOMAIN indexes) :
       /\ c = last'.corpus
       /\ c # None
       /\ indexes'[c] = indexFiles[c]
  /\ \A c \in (DOMAIN metadata') \ (DOMAIN metadata) :
       /\ c = last'.corpus
       /\ c # None
       /\ metadata'[c] = metaFiles[c]
  /\ \A c \in DOMAIN metadata' : \A i \in 1..Len(metadata'[c]) :
       DOMAIN metadata'[c][i] = RecordFields

\* C29: search_similar_texts does not modify the stored metadata: no record of the
\* registry gains a similarity_score or corpus_name field or changes otherwise, the
\* indexes are unchanged, nothing is written to storage, and the only change to the
\* registry is the pair of the named corpus when the search lazily loads it.
C29_SearchKeepsRegistry ==
  [][SearchStep =>
       /\ UNCHANGED <<corpusFiles, indexFiles, metaFiles>>
       /\ RegistryKeptOrLoaded]_vars

\* a search that lazily loaded its corpus and returned annotated results, with the
\* stored records holding their three fields only
C29_Witness ==
  /\ last.op = "search"
  /\ last.raised = ""
  /\ ~last.wasLoaded
  /\ last.regChanged
  /\ last.result # <<>>
  /\ "similarity_score" \in DOMAIN last.result[1]
  /\ DOMAIN metadata[last.corpus][1] = RecordFields

\* C30: when search_similar_texts is given a corpus name (any string, not None),
\* every result it returns has corpus_name equal to that name and comes from the
\* index of that corpus only, whatever other corpora are loaded.
C30_NamedCorpusOnly ==
  (IsSearch /\ last.corpus # None /\ last.raised = "") =>
    \A i \in 1..Len(last.result) :
      /\ last.result[i].corpus_name = last.corpus
      /\ last.corpus \in DOMAIN metadata
      /\ \E j \in 1..Len(metadata[last.corpus]) :
           /\ metadata[last.corpus][j].index = last.result[i].index
           /\ metadata[last.corpus][j].translations = last.result[i].translations

\* a search that named a loaded corpus while another corpus was loaded too, and
\* returned results
C30_NamedWithOthersLoaded ==
  /\ IsSearch
  /\ last.corpus \in Names
  /\ DOMAIN indexes = Names
  /\ last.result # <<>>

Range(seq) == {seq[i] : i \in 1..Len(seq)}

\* C12: load_corpus(name) right after save_corpus(name, entries), entries not empty,
\* returns a sequence equal to entries (same length, same order, same
\* language-to-text mappings), also when an earlier version of the corpus existed.
C12_SaveLoadRoundTrip ==
  (last.op = "load_corpus" /\ last.savedBefore # <<>>) =>
    /\ last.raised = ""
    /\ Len(last.result) = Len(last.savedBefore)
    /\ \A i \in 1..Len(last.result) : last.result[i] = last.savedBefore[i]

\* such a load of two entries while the persisted metadata of the corpus still holds
\* the entries of an earlier version
C12_Witness ==
  /\ last.op = "load_corpus"
  /\ Len(last.savedBefore) = 2
  /\ Len(last.result) = 2
  /\ last.corpus \in DOMAIN metaFiles
  /\ \A i \in 1..Len(metaFiles[last.corpus]) :
       metaFiles[last.corpus][i].translations \notin Range(last.result)

\* C13: load_corpus of a name that was never saved returns the empty sequence, raises
\* nothing, and changes neither the files nor the registry.
C13_LoadAbsentCorpus ==
  (last.op = "load_corpus" /\ last.corpus \notin DOMAIN corpusFiles) =>
    /\ last.result = <<>>
    /\ last.raised = ""
    /\ ~last.corpusChanged
    /\ ~last.filesChanged
    /\ ~last.regChanged

\* such a load while the other corpus is saved, built and loaded
C13_Witness ==
  /\ last.op = "load_corpus"
  /\ last.corpus \notin DOMAIN corpusFiles
  /\ corpusFiles # EmptyDict
  /\ indexes # EmptyDict
  /\ last.result = <<>>

(***************************************************************************)
(* Properties of get_context_examples                                      *)
(***************************************************************************)
IsContext == last.op = "context"

\* the formatted examples in a returned string
ExamplePieces(str) == {i \in 1..Len(str) : str[i].kind = "example"}

\* the results the last get_context_examples retrieved
Retrieved == ContextSearch(last.query, last.k)

EligiblePositions == {i \in 1..Len(Retrieved) : Eligible(Retrieved[i], last.lang)}

\* C16: for max_examples = N >= 0, any query and any target language, the string
\* get_context_examples returns holds at most N formatted examples.
C16_AtMostMaxExamples ==
  (IsContext /\ last.raised = "") =>
    /\ Cardinality(ExamplePieces(last.result)) <= last.k
    /\ (last.k = 0) => (last.result = <<>>)

\* a call with N = 1 that retrieved two eligible results and returned one example
C16_Witness ==
  /\ IsContext
  /\ last.raised = ""
  /\ last.k = 1
  /\ Cardinality(EligiblePositions) = 2
  /\ Cardinality(ExamplePieces(last.result)) = 1

\* the list a cross-corpus search for twice the requested number of examples returns
TwiceRequested ==
  SearchLoaded(indexes, metadata, indexKeys, last.query, None, 2 * last.k, annTie)

EligibleIn(list) == {p \in 1..Len(list) : Eligible(list[p], last.lang)}

\* how many eligible results of the list stand at or before position p
EligibleRank(list, p) == Cardinality({q \in EligibleIn(list) : q <= p})

IsExample(piece) == piece.kind = "example"

ContainsSourceLanguage(result) ==
  \E j \in 1..Min(Len(metadata[result.corpus_name]), Len(indexes[result.corpus_name])) :
    /\ metadata[result.corpus_name][j].index = result.index
    /\ \E l \in DOMAIN result.translations :
         indexes[result.corpus_name][j] = NormalizeL2(Encode(result.translations[l]))

SourceAndTargetIn(list) ==
  {p \in 1..Len(list) :
     ContainsSourceLanguage(list[p]) /\ last.lang \in DOMAIN list[p].translations}

\* C26: a retrieved result is formatted as an example if and only if its record
\* contains both the source language of the build and the target language, whatever
\* the source language the index was built with: the examples are the first N such
\* results of the retrieved list.
C26_SourceAndTargetEligible ==
  (IsContext /\ last.raised = "") =>
    LET list == TwiceRequested
        having == SourceAndTargetIn(list)
        chosen == {p \in having : Cardinality({q \in having : q <= p}) <= last.k}
        examples == SelectSeq(last.result, IsExample)
    IN  /\ Len(examples) = Cardinality(chosen)
        /\ \A p \in chosen : Eligible(list[p], last.lang)
        /\ \A p \in chosen :
             examples[Cardinality({q \in having : q <= p})]
               = FormatExample(list[p], last.lang)

\* C17: get_context_examples never fails; it returns the empty string exactly when no
\* retrieved result is eligible, so with an empty registry and when the target
\* language is in no retrieved record, and otherwise the header followed by the
\* examples.
C17_ContextNeverFails ==
  IsContext =>
    /\ last.raised = ""
    /\ (last.result = <<>>) <=> (EligiblePositions = {})
    /\ (indexes = EmptyDict) => (last.result = <<>>)
    /\ (last.result # <<>>) =>
         /\ last.result[1] = Piece("text", <<"Translation examples:\n">>)
         /\ ExamplePieces(last.result) # {}

(***************************************************************************)
(* Threads: one build and one search of the same manager, interleaved at   *)
(* the statements that read or write the registry and the files.  The      *)
(* lazy load of line 611 is taken as one step.                             *)
(***************************************************************************)
ThreadCorpus == "legal_formal"

\* lines 549-583: the corpus is read, the index is made and stored in self.indexes
BuildBegin(corpus_name, source_lang) ==
  /\ builder.pc = "idle"
  /\ Built(corpus_name, source_lang)
  /\ indexes' = BuiltIndexes(corpus_name, source_lang)
  /\ indexKeys' = KeysAfterSet(indexKeys, corpus_name)
  /\ builder' = [pc |-> "store_metadata", corpus |-> corpus_name,
                 index |-> BuiltIndexes(corpus_name, source_lang)[corpus_name],
                 meta |-> NewMetadata(corpus_name, source_lang)]
  /\ UNCHANGED <<corpusFiles, indexFiles, metaFiles, metadata, annTie, last, searcher,
                 registered>>
  /\ UNCHANGED storeVars

\* line 584
BuildStoreMetadata ==
  /\ builder.pc = "store_metadata"
  /\ metadata' = DictSet(metadata, builder.corpus, builder.meta)
  /\ registered' = registered \cup {<<builder.index, builder.meta>>}
  /\ builder' = [builder EXCEPT !.pc = "write_index"]
  /\ UNCHANGED <<corpusFiles, indexFiles, metaFiles, indexes, indexKeys, annTie, last,
                 searcher>>
  /\ UNCHANGED storeVars

\* line 590
BuildWriteIndex ==
  /\ builder.pc = "write_index"
  /\ indexFiles' = DictSet(indexFiles, builder.corpus, builder.index)
  /\ builder' = [builder EXCEPT !.pc = "write_metadata"]
  /\ UNCHANGED <<corpusFiles, metaFiles, indexes, indexKeys, metadata, annTie, last,
                 searcher, registered>>
  /\ UNCHANGED storeVars

\* lines 591-594
BuildWriteMetadata ==
  /\ builder.pc = "write_metadata"
  /\ metaFiles' = DictSet(metaFiles, builder.corpus, builder.meta)
  /\ builder' = BuilderIdle
  /\ UNCHANGED <<corpusFiles, indexFiles, indexes, indexKeys, metadata, annTie, last,
                 searcher, registered>>
  /\ UNCHANGED storeVars

\* lines 610-621 for a named corpus
SearchBegin(query, corpus_name, k) ==
  /\ searcher.pc \in {"idle", "done"}
  /\ indexes' = SearchIndexes(corpus_name)
  /\ indexKeys' = SearchKeys(corpus_name)
  /\ metadata' = SearchMetadata(corpus_name)
  /\ registered' =
       IF NeedsLoad(corpus_name, indexes) /\ CanLoad(corpus_name)
       THEN registered \cup {<<indexFiles[corpus_name], metaFiles[corpus_name]>>}
       ELSE registered
  /\ searcher' =
       IF NeedsLoad(corpus_name, indexes) /\ ~CanLoad(corpus_name)
       THEN [SearcherIdle EXCEPT !.corpus = corpus_name, !.query = query, !.k = k,
                                 !.pc = "returned_empty"]
       ELSE [SearcherIdle EXCEPT !.corpus = corpus_name, !.query = query, !.k = k,
                                 !.pc = "query_index"]
  /\ UNCHANGED <<corpusFiles, indexFiles, metaFiles, annTie, last, builder>>
  /\ UNCHANGED storeVars

\* line 612 has returned []: the thread is free again
SearchReturnedEmpty ==
  /\ searcher.pc = "returned_empty"
  /\ searcher' = SearcherIdle
  /\ UNCHANGED <<corpusFiles, indexFiles, metaFiles, indexes, indexKeys, metadata, annTie,
                 last, builder, registered>>
  /\ UNCHANGED storeVars

\* lines 623-628: self.indexes[corpus] is read and searched
SearchQueryIndex ==
  /\ searcher.pc = "query_index"
  /\ searcher.corpus \in DOMAIN indexes
  /\ searcher' = [searcher EXCEPT
                    !.pc = "collect",
                    !.index = indexes[searcher.corpus],
                    !.hits = FaissSearch(indexes[searcher.corpus],
                                         QueryVector(searcher.query), searcher.k, annTie)]
  /\ UNCHANGED <<corpusFiles, indexFiles, metaFiles, indexes, indexKeys, metadata, annTie,
                 last, builder, registered>>
  /\ UNCHANGED storeVars

\* lines 631-640: self.metadata[corpus] is read; a missing key raises KeyError
SearchCollect ==
  /\ searcher.pc = "collect"
  /\ searcher' =
       IF searcher.corpus \notin DOMAIN metadata
       THEN [searcher EXCEPT !.pc = "done", !.raised = "KeyError"]
       ELSE [searcher EXCEPT
               !.pc = "done",
               !.meta = metadata[searcher.corpus],
               !.result = Take(SortByScore(Collect(searcher.corpus, searcher.hits,
                                                   metadata[searcher.corpus], 1)),
                               searcher.k)]
  /\ UNCHANGED <<corpusFiles, indexFiles, metaFiles, indexes, indexKeys, metadata, annTie,
                 last, builder, registered>>
  /\ UNCHANGED storeVars

NextConc ==
  \/ \E d \in DataPool : SaveCorpus(ThreadCorpus, d)
  \/ \E l \in Langs : BuildBegin(ThreadCorpus, l)
  \/ BuildStoreMetadata
  \/ BuildWriteIndex
  \/ BuildWriteMetadata
  \/ \E q \in Queries, k \in Ks : SearchBegin(q, ThreadCorpus, k)
  \/ SearchReturnedEmpty
  \/ SearchQueryIndex
  \/ SearchCollect

SpecConc == Init /\ [][NextConc]_vars

(***************************************************************************)
(* Threads: one save_corpus and load_corpus calls of the same corpus.      *)
(* open(filepath, 'w') empties the file; json.dump writes the document     *)
(* chunk by chunk into the file buffer, which reaches the file when it     *)
(* fills and when the file is closed.  A load_corpus reads the file as it  *)
(* is at one moment.                                                       *)
(***************************************************************************)
\* line 527: the file is created or emptied
SaveOpen(corpus_name, data) ==
  /\ saver.pc = "idle"
  /\ corpusFiles' = DictSet(corpusFiles, corpus_name, <<>>)
  /\ saver' = [pc |-> "dump", corpus |-> corpus_name, data |-> data,
               old |-> LoadCorpus(corpus_name),
               text |-> JsonDump(CorpusRecord(corpus_name, data))]
  /\ UNCHANGED <<indexFiles, metaFiles, indexes, indexKeys, metadata, annTie, last,
                 builder, searcher, registered, loader>>

\* lines 528-533: the buffer is flushed while json.dump is still writing; the file
\* holds the first n chunks
SaveFlush(n) ==
  /\ saver.pc = "dump"
  /\ n > Len(corpusFiles[saver.corpus])
  /\ n < Len(saver.text)
  /\ corpusFiles' = DictSet(corpusFiles, saver.corpus, SubSeq(saver.text, 1, n))
  /\ UNCHANGED <<indexFiles, metaFiles, indexes, indexKeys, metadata, annTie, last,
                 builder, searcher, registered, saver, loader>>

\* the end of the with block: the rest is written and the file is closed
SaveClose ==
  /\ saver.pc = "dump"
  /\ corpusFiles' = DictSet(corpusFiles, saver.corpus, saver.text)
  /\ saver' = SaverIdle
  /\ UNCHANGED <<indexFiles, metaFiles, indexes, indexKeys, metadata, annTie, last,
                 builder, searcher, registered, loader>>

\* lines 535-543 in another thread; versions are the entry sequences of the complete
\* versions of the corpus at that moment: the one before the save in progress and
\* the one being saved, or the one stored
LoadCorpusRead(corpus_name) ==
  /\ loader' = [pc |-> "done", corpus |-> corpus_name,
                result |-> IF LoadCorpusRaises(corpus_name) THEN <<>>
                           ELSE LoadCorpus(corpus_name),
                raised |-> IF LoadCorpusRaises(corpus_name) THEN "JSONDecodeError"
                           ELSE "",
                versions |-> IF saver.pc = "dump" /\ saver.corpus = corpus_name
                             THEN {saver.old, saver.data}
                             ELSE {LoadCorpus(corpus_name)}]
  /\ UNCHANGED <<corpusFiles, indexFiles, metaFiles, indexes, indexKeys, metadata, annTie,
                 last, builder, searcher, registered, saver>>

NextStore ==
  \/ \E d \in DataPool : SaveOpen(ThreadCorpus, d)
  \/ \E n \in 1..MaxChunks : SaveFlush(n)
  \/ SaveClose
  \/ LoadCorpusRead(ThreadCorpus)

SpecStore == Init /\ [][NextStore]_vars

\* C10: a search of a corpus that runs concurrently with a build of the same corpus
\* sees the old (index, metadata) pair or the new one: the index it searched and the
\* metadata it joined were held by the registry together as a pair, and the
\* metadata was not missing.
C10_NoPartialState ==
  (searcher.pc = "done") =>
    /\ searcher.raised = ""
    /\ <<searcher.index, searcher.meta>> \in registered

\* C14: save_corpus overwrites atomically: a load_corpus interleaved with a
\* save_corpus of the same name is given the complete previous version or the
\* complete new version; it never meets an empty or partly written file.
C14_AtomicOverwrite ==
  (loader.pc = "done") =>
    /\ loader.raised = ""
    /\ loader.result \in loader.versions

====
